---------------------------- MODULE Spec2Model ----------------------------
(***************************************************************************)
(* A model of the withInstruction boilerplate's API request wrapper        *)
(* (app/configs/APIConfig.ts, SentryConfig), its persisted Redux store     *)
(* (app/redux/Store.ts), its Expo configuration (app.config, buildconfig)  *)
(* and its Android signing config plugin (withCustomSigning.js), its build  *)
(* scripts (ios-build.sh, the copy-env script), the CustomButton component *)
(* and the sign-in form.                                                   *)
(***************************************************************************)
EXTENDS Naturals, Integers, Sequences, FiniteSets, TLC

(***************************************************************************)
(* Bounds of the model.                                                    *)
(***************************************************************************)
\* Number of thunk dispatches (each gets its own requestId).
NumThunks == 2
\* Longest build.gradle (in lines) a run of the signing plugin starts from.
MaxLines == 3
\* Number of runs of the signing plugin on one project.
MaxRuns == 2
\* Number of users that sign in.
NumUsers == 2
\* Number of presses of a button, of its renders, and of the times the clock
\* is advanced between them.
MaxPresses == 3
MaxRenders == 2
MaxAdvances == 3
\* CustomButton's default debounceTime, in ms.
DefaultDebounceTime == 300

(***************************************************************************)
(* JavaScript values shared by the sections.                               *)
(***************************************************************************)
Undefined == "<undefined>"
Null == "<null>"

VARIABLES
  \* ---- API thunks (APIConfig.ts, SentryConfig) ----
  isDevelopment,  \* AppEnvConst.isDevelopment
  rtk,            \* createAsyncThunk's wrapper per dispatch: idle, racing, done
  pc,             \* the payload creator's position: idle, awaiting, returned
  signal,         \* thunkApi.signal.aborted
  listeners,      \* events of thunkApi.signal the cancel callback listens to
  source,         \* the CancelToken source of the dispatch
  requests,       \* HTTP requests issued through the apisauce instance
  outcome,        \* what the awaited request produced
  returned,       \* what the payload creator returned
  race,           \* createAsyncThunk's Promise.race: pending, aborted, payload
  actions,        \* lifecycle actions dispatched to the store, per requestId
  sentryCalls,    \* calls of sentryCaptureAPIException, per dispatch
  captured,       \* exceptions handed to Sentry.captureException, per dispatch
  toast,          \* the payload's shouldShowToast after defaulting
  \* ---- handleError applied to one response ----
  he,             \* [response, shouldShowToast, called, result]
  \* ---- Expo configuration (app.config, buildconfig) ----
  cfg,            \* [nodeEnv, config, called, result]
  \* ---- Android signing plugin (withCustomSigning.js) ----
  fs,             \* the project's files the plugin reads and writes
  run,            \* what the plugin's runs did
  \* ---- Persisted Redux store (redux/Store.ts) ----
  app,            \* stopped, persisting (PERSIST dispatched), rehydrated
  store,          \* the store's state: auth and redux-persist's _persist
  inbound,        \* the stored state read when PERSIST was dispatched
  persistoid,     \* redux-persist's writer: lastState, keysToProcess, stagedState
  storage,        \* the value under persistConfig.key in reduxStorage
  persisted,      \* history: the auth state of the last write, of the launch, of the rehydration
  \* ---- iOS build script (ios-build.sh) ----
  argv,           \* the script's arguments $1, $2, $3 ("" when missing)
  sh,             \* the shell: position, variables, working directory, exit
  disk,           \* the project's files by path, with what they hold
  ran,            \* the commands the script ran, with their exit status
  original,       \* the project's files when the script started
  \* ---- copy-env script ----
  envCopy,        \* [arg, files, at, exited, code, out]
  \* ---- CustomButton (components/button) ----
  button,         \* props, the debounced function of the last render, the clock
  presses,        \* the presses so far: when, and whether onPress was invoked
  \* ---- SigninForm (modules/auth/signin/signin-form) ----
  signin          \* [values, errors, loading, rendered, result, disabled]

thunkVars == <<isDevelopment, rtk, pc, signal, listeners, source, requests,
               outcome, returned, race, actions, sentryCalls, captured, toast>>

heVars == <<he>>

cfgVars == <<cfg>>
gradleVars == <<fs, run>>

persistVars == <<app, store, inbound, persistoid, storage, persisted>>

iosVars == <<argv, sh, disk, ran, original>>

envVars == <<envCopy>>

buttonVars == <<button, presses>>

signinVars == <<signin>>

vars == <<thunkVars, heVars, cfgVars, gradleVars, persistVars,
          iosVars, envVars, buttonVars, signinVars>>

\* What each part of the program leaves alone.
exceptThunk == <<heVars, cfgVars, gradleVars, persistVars,
  iosVars, envVars, buttonVars, signinVars>>
exceptHE == <<thunkVars, cfgVars, gradleVars, persistVars,
  iosVars, envVars, buttonVars, signinVars>>
exceptCfg == <<thunkVars, heVars, gradleVars, persistVars,
  iosVars, envVars, buttonVars, signinVars>>
exceptGradle == <<thunkVars, heVars, cfgVars, persistVars,
  iosVars, envVars, buttonVars, signinVars>>
exceptPersist == <<thunkVars, heVars, cfgVars, gradleVars,
  iosVars, envVars, buttonVars, signinVars>>
appVars == <<thunkVars, heVars, cfgVars, gradleVars, persistVars>>
exceptIos == <<appVars, envVars, buttonVars, signinVars>>
exceptEnv == <<appVars, iosVars, buttonVars, signinVars>>
exceptButton == <<appVars, iosVars, envVars, signinVars>>
exceptSignin == <<appVars, iosVars, envVars, buttonVars>>

(***************************************************************************)
(* Strings.APIError: the localized messages, named by their I18n keys.     *)
(***************************************************************************)
APIError ==
  [ somethingWentWrong |-> "apiError:somethingWentWrong",
    networkError       |-> "apiError:networkError",
    serverError        |-> "apiError:serverError",
    timeoutError       |-> "apiError:timeoutError",
    clientError        |-> "apiError:clientError",
    cancelError        |-> "apiError:cancelError",
    connectionError    |-> "apiError:connectionError",
    unexpectedError    |-> "apiError:unexpectedError",
    cancelSagaError    |-> "apiError:cancelSagaError",
    error              |-> "apiError:error" ]

\* APIErrorType.USER_CANCELLED_REQUEST, the reason given to source.cancel.
USER_CANCELLED_REQUEST == "USER_CANCELLED_REQUEST"

\* apisauce's problem codes of a response that is not ok.
ApiProblems ==
  { "CLIENT_ERROR", "SERVER_ERROR", "TIMEOUT_ERROR", "CONNECTION_ERROR",
    "NETWORK_ERROR", "CANCEL_ERROR", "UNKNOWN_ERROR" }

\* response.data: absent (undefined) or an object whose message is a string,
\* null or undefined.
NoData == [present |-> FALSE, message |-> Undefined]
DataWith(m) == [present |-> TRUE, message |-> m]

\* An ApiResponse as the thunk reads it.
ApiResponse(ok, problem, data, originalMessage) ==
  [ok |-> ok, problem |-> problem, data |-> data, originalError |-> originalMessage]

NoResponse == ApiResponse(FALSE, "NONE", NoData, Undefined)
\* A thrown value: an axios error, another Error, a string, or anything else.
ThrownValue(isAxiosError, isError, isString, message) ==
  [isAxiosError |-> isAxiosError, isError |-> isError, isString |-> isString,
   message |-> message]

NoError == ThrownValue(FALSE, FALSE, FALSE, Undefined)

\* getErrorResponse (utils/CommonUtils): wraps a message into an ErrorResponse.
getErrorResponse(message) == [message |-> message]

\* handleClientError: response.data?.message ?? defaultMessage.
handleClientError(response, defaultMessage) ==
  getErrorResponse(
    IF response.data.present /\ response.data.message \notin {Undefined, Null}
      THEN response.data.message
      ELSE defaultMessage)

\* A slip of handleError: the TIMEOUT_ERROR and CONNECTION_ERROR cases swapped.
handleErrorSwapped(response, shouldShowToast) ==
  CASE response.problem = "CLIENT_ERROR" -> handleClientError(response, APIError.clientError)
    [] response.problem = "SERVER_ERROR" -> handleClientError(response, APIError.serverError)
    [] response.problem = "TIMEOUT_ERROR" -> handleClientError(response, APIError.connectionError)
    [] response.problem = "CONNECTION_ERROR" -> handleClientError(response, APIError.timeoutError)
    [] response.problem = "NETWORK_ERROR" -> handleClientError(response, APIError.networkError)
    [] response.problem = "CANCEL_ERROR" -> handleClientError(response, APIError.cancelError)
    [] OTHER -> handleClientError(response, APIError.somethingWentWrong)

\* handleError: the switch on response.problem; the toast branch is empty.
handleError(response, shouldShowToast) ==
  CASE response.problem = "CLIENT_ERROR" -> handleClientError(response, APIError.clientError)
    [] response.problem = "SERVER_ERROR" -> handleClientError(response, APIError.serverError)
    [] response.problem = "TIMEOUT_ERROR" -> handleClientError(response, APIError.timeoutError)
    [] response.problem = "CONNECTION_ERROR" -> handleClientError(response, APIError.connectionError)
    [] response.problem = "NETWORK_ERROR" -> handleClientError(response, APIError.networkError)
    [] response.problem = "CANCEL_ERROR" -> handleClientError(response, APIError.cancelError)
    [] OTHER -> handleClientError(response, APIError.somethingWentWrong)

\* handleCatchError: the axios error's message, or the unexpected-error string.
handleCatchError(error) ==
  IF error.isAxiosError
    THEN getErrorResponse(error.message)
    ELSE getErrorResponse(APIError.unexpectedError)

(***************************************************************************)
(* SentryConfig: sentryCaptureAPIException.                                *)
(***************************************************************************)
\* The exception built from (endpoint, error): its name and its message.
SentryEvent(endpoint, error) ==
  [ name    |-> IF endpoint \notin {Undefined, ""}
                  THEN <<APIError.error, endpoint>>
                  ELSE <<APIError.error>>,
    message |-> IF error.isString THEN error.message
                ELSE IF error.isError THEN error.message
                ELSE APIError.unexpectedError ]

\* A slip of sentryCaptureAPIException: the development guard dropped.
sentryCaptureAPIExceptionAlways(development, endpoint, response, error) ==
  <<SentryEvent(endpoint, error)>>

\* sentryCaptureAPIException: the exceptions handed to Sentry.captureException;
\* none in a development build.
sentryCaptureAPIException(development, endpoint, response, error) ==
  IF ~development THEN <<SentryEvent(endpoint, error)>> ELSE <<>>

\* The third argument of sentryCaptureAPIException in
\* processResponseAndCaptureInfo: response?.data?.message.
MessageAsError(response) ==
  LET m == IF response.data.present THEN response.data.message ELSE Undefined
  IN  ThrownValue(FALSE, FALSE, m \notin {Undefined, Null}, m)

\* processResponseAndCaptureInfo: whether it calls sentryCaptureAPIException.
processResponseCaptures(response) ==
  response.originalError # USER_CANCELLED_REQUEST

(***************************************************************************)
(* The thunks createAsyncThunkWithCancelToken creates.                     *)
(***************************************************************************)
Thunks == 1 .. NumThunks

HttpMethods == <<"GET", "POST", "PUT", "DELETE">>

\* The method dispatch t's thunk was created with, and its url.
ThunkMethod(t) == HttpMethods[((t - 1) % Len(HttpMethods)) + 1]
ThunkUrl(t) == "/endpoint"

toLowerCase(method) ==
  CASE method = "GET" -> "get"
    [] method = "POST" -> "post"
    [] method = "PUT" -> "put"
    [] method = "PATCH" -> "patch"
    [] method = "DELETE" -> "delete"
    [] OTHER -> method

\* The thunk arguments dispatched: none, or data and params with the toast
\* switched off.  Neither carries setting or paths.
Payloads ==
  { [data |-> Undefined, params |-> Undefined, shouldShowToast |-> Undefined],
    [data |-> "data", params |-> "params", shouldShowToast |-> "false"] }

\* CancelToken.source() and source.cancel(reason): the first reason stays.
NewSource == [requested |-> FALSE, reason |-> Undefined]
Cancel(src, reason) ==
  IF src.requested THEN src ELSE [requested |-> TRUE, reason |-> reason]

\* One call of api[httpMethod](url, arg, settings).
HttpRequest(verb, url, arg, settingsParams, token) ==
  [verb |-> verb, url |-> url, arg |-> arg, params |-> settingsParams,
   cancelToken |-> token]

\* A slip of apiWithCancelToken: both arms of the conditional are called.
apiWithCancelTokenBoth(method, url, data, params, token) ==
  LET httpMethod == toLowerCase(method)
      hasData == httpMethod \in {"post", "put", "patch"}
      settingsParams == IF ~hasData /\ params # Undefined THEN params ELSE Undefined
  IN  << HttpRequest(httpMethod, url, data, settingsParams, token),
         HttpRequest(httpMethod, url, IF params # Undefined THEN params ELSE "{}",
                     settingsParams, token) >>

\* apiWithCancelToken: the requests it issues, carrying source.token.
apiWithCancelToken(method, url, data, params, token) ==
  LET httpMethod == toLowerCase(method)
      hasData == httpMethod \in {"post", "put", "patch"}
      settingsParams == IF ~hasData /\ params # Undefined THEN params ELSE Undefined
  IN  IF hasData
        THEN << HttpRequest(httpMethod, url, data, settingsParams, token) >>
        ELSE << HttpRequest(httpMethod, url,
                            IF params # Undefined THEN params ELSE "{}",
                            settingsParams, token) >>

\* A slip of the listener hookup: the callback listens to another event.
AddCancelListenerWrongEvent(ls) == ls \cup {"error"}

\* thunkApi.signal.addEventListener('abort', () => source.cancel(...)).
AddCancelListener(ls) == ls \cup {"abort"}

\* What the awaited request produced: a response, or a thrown value.
Response(r) == [threw |-> FALSE, response |-> r, error |-> NoError]
Thrown(e) == [threw |-> TRUE, response |-> NoResponse, error |-> e]
NoOutcome == [threw |-> FALSE, response |-> NoResponse, error |-> NoError]

\* The response apisauce gives for a request whose token was cancelled.
CancelledResponse(reason) == ApiResponse(FALSE, "CANCEL_ERROR", NoData, reason)

\* The outcomes of a request that was not cancelled.
ThunkOutcomes ==
  { Response(ApiResponse(TRUE, "NONE", DataWith(Undefined), Undefined)),
    Response(ApiResponse(FALSE, "SERVER_ERROR", DataWith("Invalid credentials"), "Request failed")),
    Response(ApiResponse(FALSE, "TIMEOUT_ERROR", NoData, "timeout exceeded")),
    Thrown(ThrownValue(TRUE, TRUE, FALSE, "Network Error")),
    Thrown(ThrownValue(FALSE, FALSE, FALSE, Undefined)) }

\* What the payload creator returns.
NotReturned == [kind |-> "none", payload |-> NoData]
ReturnValue(data) == [kind |-> "value", payload |-> data]
RejectWithValue(err) == [kind |-> "rejectWithValue", payload |-> err]

\* The payload creator after its await: the value it returns.
PayloadCreatorResult(o, shouldShowToast) ==
  IF o.threw THEN RejectWithValue(handleCatchError(o.error))
  ELSE IF o.response.ok THEN ReturnValue(o.response.data)
  ELSE RejectWithValue(handleError(o.response, shouldShowToast))

\* The payload creator after its await: how often it calls
\* sentryCaptureAPIException, and what reaches Sentry.captureException.
PayloadCreatorSentryCalls(o) ==
  IF o.threw THEN 1
  ELSE IF o.response.ok THEN 0
  ELSE IF processResponseCaptures(o.response) THEN 1 ELSE 0

PayloadCreatorCaptured(development, url, o) ==
  IF o.threw THEN sentryCaptureAPIException(development, url, Null, o.error)
  ELSE IF o.response.ok THEN <<>>
  ELSE IF processResponseCaptures(o.response)
    THEN sentryCaptureAPIException(development, url, o.response, MessageAsError(o.response))
    ELSE <<>>

\* createAsyncThunk's lifecycle actions.
Pending(t) == [type |-> "pending", requestId |-> t, payload |-> NoData, aborted |-> FALSE]
Fulfilled(t, p) == [type |-> "fulfilled", requestId |-> t, payload |-> p, aborted |-> FALSE]
Rejected(t, p, aborted) == [type |-> "rejected", requestId |-> t, payload |-> p, aborted |-> aborted]

\* The action createAsyncThunk dispatches once its race is decided.
FinalAction(t) ==
  IF race[t] = "aborted" THEN Rejected(t, NoData, TRUE)
  ELSE IF returned[t].kind = "rejectWithValue" THEN Rejected(t, returned[t].payload, FALSE)
  ELSE Fulfilled(t, returned[t].payload)

\* A promise settles once: a later contender of Promise.race changes nothing.
Settle(current, by) == IF current = "pending" THEN by ELSE current

\* A slip of the wrapper: the final action is dispatched whenever the race is
\* decided, not once.
CanFinalizeRepeatedly(t) == race[t] # "pending" /\ rtk[t] # "idle" /\ Len(actions[t]) < 4

\* createAsyncThunk dispatches the final action once, after its race.
CanFinalize(t) == race[t] # "pending" /\ rtk[t] = "racing"

ThunkInit ==
  /\ isDevelopment \in BOOLEAN
  /\ rtk = [t \in Thunks |-> "idle"]
  /\ pc = [t \in Thunks |-> "idle"]
  /\ signal = [t \in Thunks |-> FALSE]
  /\ listeners = [t \in Thunks |-> {}]
  /\ source = [t \in Thunks |-> NewSource]
  /\ requests = [t \in Thunks |-> <<>>]
  /\ outcome = [t \in Thunks |-> NoOutcome]
  /\ returned = [t \in Thunks |-> NotReturned]
  /\ race = [t \in Thunks |-> "pending"]
  /\ actions = [t \in Thunks |-> <<>>]
  /\ sentryCalls = [t \in Thunks |-> 0]
  /\ captured = [t \in Thunks |-> <<>>]
  /\ toast = [t \in Thunks |-> TRUE]

\* dispatch(thunk(payload)): pending is dispatched, then the payload creator
\* runs to its await: the source, the abort listener, the request.
Dispatch(t, payload) ==
  /\ rtk[t] = "idle"
  /\ rtk' = [rtk EXCEPT ![t] = "racing"]
  /\ actions' = [actions EXCEPT ![t] = Append(@, Pending(t))]
  /\ toast' = [toast EXCEPT ![t] =
                 IF payload.shouldShowToast = Undefined THEN TRUE
                 ELSE payload.shouldShowToast = "true"]
  /\ source' = [source EXCEPT ![t] = NewSource]
  /\ listeners' = [listeners EXCEPT ![t] = AddCancelListener(@)]
  /\ requests' = [requests EXCEPT ![t] =
                    @ \o apiWithCancelToken(ThunkMethod(t), ThunkUrl(t),
                                            payload.data, payload.params, t)]
  /\ pc' = [pc EXCEPT ![t] = "awaiting"]
  /\ UNCHANGED <<isDevelopment, signal, outcome, returned, race, sentryCalls, captured>>
  /\ UNCHANGED exceptThunk

\* promise.abort(): the signal fires 'abort' once; the listener cancels the
\* source; createAsyncThunk's aborted promise enters the race.
Abort(t) ==
  /\ rtk[t] # "idle"
  /\ ~signal[t]
  /\ signal' = [signal EXCEPT ![t] = TRUE]
  /\ source' = [source EXCEPT ![t] =
                  IF "abort" \in listeners[t]
                    THEN Cancel(@, USER_CANCELLED_REQUEST) ELSE @]
  /\ race' = [race EXCEPT ![t] = Settle(@, "aborted")]
  /\ UNCHANGED <<isDevelopment, rtk, pc, listeners, requests, outcome, returned,
                 actions, sentryCalls, captured, toast>>
  /\ UNCHANGED exceptThunk

\* The awaited request settles with o and the payload creator runs to its
\* return (lines 328-337); its promise enters the race.
Settled(t, o) ==
  /\ pc[t] = "awaiting"
  /\ outcome' = [outcome EXCEPT ![t] = o]
  /\ sentryCalls' = [sentryCalls EXCEPT ![t] = @ + PayloadCreatorSentryCalls(o)]
  /\ captured' = [captured EXCEPT ![t] =
                    @ \o PayloadCreatorCaptured(isDevelopment, ThunkUrl(t), o)]
  /\ returned' = [returned EXCEPT ![t] = PayloadCreatorResult(o, toast[t])]
  /\ pc' = [pc EXCEPT ![t] = "returned"]
  /\ race' = [race EXCEPT ![t] = Settle(@, "payload")]
  /\ UNCHANGED <<isDevelopment, rtk, signal, listeners, source, requests, actions, toast>>
  /\ UNCHANGED exceptThunk

\* A request whose token is not cancelled gets a response or throws.
Respond(t) ==
  /\ ~source[t].requested
  /\ \E o \in ThunkOutcomes : Settled(t, o)

\* A request whose token is cancelled ends with apisauce's CANCEL_ERROR.
RequestCancelled(t) ==
  /\ source[t].requested
  /\ Settled(t, Response(CancelledResponse(source[t].reason)))

\* createAsyncThunk dispatches fulfilled or rejected after its race.
Finalize(t) ==
  /\ CanFinalize(t)
  /\ actions' = [actions EXCEPT ![t] = Append(@, FinalAction(t))]
  /\ rtk' = [rtk EXCEPT ![t] = "done"]
  /\ UNCHANGED <<isDevelopment, pc, signal, listeners, source, requests, outcome,
                 returned, race, sentryCalls, captured, toast>>
  /\ UNCHANGED exceptThunk

ThunkNext ==
  \E t \in Thunks :
    \/ \E payload \in Payloads : Dispatch(t, payload)
    \/ Abort(t)
    \/ Respond(t)
    \/ RequestCancelled(t)
    \/ Finalize(t)

(***************************************************************************)
(* handleError applied to one response that is not ok.                     *)
(***************************************************************************)
\* The bodies of the responses handleError is applied to.
ResponseBodies ==
  { NoData, DataWith(Undefined), DataWith(Null), DataWith(""),
    DataWith("Invalid credentials") }

\* The problem values: apisauce's codes and a value outside them.
ProblemValues == ApiProblems \cup {Undefined}

HEIdle == [response |-> NoResponse, shouldShowToast |-> TRUE, called |-> FALSE,
           result |-> getErrorResponse(Undefined)]

HEInit ==
  \E problem \in ProblemValues, data \in ResponseBodies, shouldShowToast \in BOOLEAN :
    he = [ response        |-> ApiResponse(FALSE, problem, data, "Request failed"),
           shouldShowToast |-> shouldShowToast,
           called          |-> FALSE,
           result          |-> getErrorResponse(Undefined) ]

\* error = handleError(response, shouldShowToast)
HandleErrorCall ==
  /\ ~he.called
  /\ he' = [he EXCEPT !.called = TRUE,
                      !.result = handleError(he.response, he.shouldShowToast)]
  /\ UNCHANGED exceptHE

(***************************************************************************)
(* The Expo configuration: getEnvironmentConfig and defineConfig.          *)
(***************************************************************************)
\* A slip of getEnvironmentConfig: the 'preview' case is missing.
getEnvironmentConfigNoPreview(environment) ==
  CASE environment = "development" ->
         [appName |-> "withinstruction-dev",
          bundleIdentifier |-> "com.simform.withinstruction.dev"]
    [] OTHER ->
         [appName |-> "withinstruction",
          bundleIdentifier |-> "com.simform.withinstruction"]

\* getEnvironmentConfig: the switch on the environment name.
getEnvironmentConfig(environment) ==
  CASE environment = "development" ->
         [appName |-> "withinstruction-dev",
          bundleIdentifier |-> "com.simform.withinstruction.dev"]
    [] environment = "preview" ->
         [appName |-> "withinstruction-preview",
          bundleIdentifier |-> "com.simform.withinstruction.preview"]
    [] OTHER ->
         [appName |-> "withinstruction",
          bundleIdentifier |-> "com.simform.withinstruction"]

\* defineConfig: the fields of the configuration it returns that depend on
\* the environment; ios and android replace those of the given config.
defineConfig(config, nodeEnv) ==
  LET env == getEnvironmentConfig(nodeEnv)
  IN  [ name     |-> env.appName,
        slug     |-> "withInstruction",
        ios      |-> [bundleIdentifier |-> env.bundleIdentifier],
        android  |-> [package |-> env.bundleIdentifier],
        proguard |-> env.bundleIdentifier ]

\* The values of process.env.NODE_ENV.
NodeEnvs ==
  {"development", "preview", "production", "test", "staging", "", Undefined}

\* The configurations defineConfig is given.
BaseConfigs ==
  [ name    : {Undefined, "custom"},
    slug    : {Undefined},
    ios     : [bundleIdentifier : {Undefined, "com.other.ios"}],
    android : [package : {Undefined, "com.other.android"}],
    proguard : {Undefined} ]

CfgIdle == [nodeEnv |-> Undefined, called |-> FALSE,
            config |-> [name |-> Undefined, slug |-> Undefined,
                        ios |-> [bundleIdentifier |-> Undefined],
                        android |-> [package |-> Undefined],
                        proguard |-> Undefined],
            result |-> [name |-> Undefined, slug |-> Undefined,
                        ios |-> [bundleIdentifier |-> Undefined],
                        android |-> [package |-> Undefined],
                        proguard |-> Undefined]]

CfgInit ==
  \E nodeEnv \in NodeEnvs, config \in BaseConfigs :
    cfg = [CfgIdle EXCEPT !.nodeEnv = nodeEnv, !.config = config, !.result = config]

\* Expo evaluates app.config: defineConfig({ config }).
DefineConfigCall ==
  /\ ~cfg.called
  /\ cfg' = [cfg EXCEPT !.called = TRUE, !.result = defineConfig(cfg.config, cfg.nodeEnv)]
  /\ UNCHANGED exceptCfg

(***************************************************************************)
(* The Android signing plugin: modifyGradleFiles.                          *)
(***************************************************************************)
\* The lines of android/app/build.gradle that matter to the plugin:
\*   plugin  : apply plugin: "com.android.application"
\*   signing : apply from: "./custom-signing.gradle"
\*   other   : any other line
LineKinds == {"plugin", "signing", "other"}

\* buildGradleContent.includes(`apply from: "./custom-signing.gradle"`)
Includes(lines, kind) == \E i \in 1 .. Len(lines) : lines[i] = kind

Occurrences(lines, kind) == Cardinality({i \in 1 .. Len(lines) : lines[i] = kind})

\* String.prototype.replace with a regular expression without the g flag:
\* the first match is replaced, and a text without a match is returned as is.
ReplaceFirst(lines, kind, by) ==
  IF ~Includes(lines, kind) THEN lines
  ELSE LET i == CHOOSE k \in 1 .. Len(lines) :
                  lines[k] = kind /\ \A l \in 1 .. k - 1 : lines[l] # kind
       IN  SubSeq(lines, 1, i - 1) \o by \o SubSeq(lines, i + 1, Len(lines))

\* modifyGradleFiles(projectRoot, config): the files after the call, whether
\* it threw, the files it wrote and its last console message.  fs.writeFileSync
\* throws when android/app does not exist, fs.readFileSync when build.gradle
\* does not.  credentialsNew.json is never looked at.
modifyGradleFiles(files) ==
  IF ~files.appDir
    THEN [fs |-> files, threw |-> TRUE, wrote |-> {}, log |-> "none"]
  ELSE LET written == [files EXCEPT !.signing = "signingConfigContent"]
       IN  IF ~files.buildGradle.exists
             THEN [fs |-> written, threw |-> TRUE,
                   wrote |-> {"custom-signing.gradle"},
                   log |-> "Created custom-signing.gradle"]
           ELSE IF ~Includes(files.buildGradle.lines, "signing")
             THEN [fs |-> [written EXCEPT !.buildGradle.lines =
                             ReplaceFirst(@, "plugin", <<"plugin", "signing">>)],
                   threw |-> FALSE,
                   wrote |-> {"custom-signing.gradle", "build.gradle"},
                   log |-> "Modified build.gradle to include custom-signing.gradle"]
           ELSE [fs |-> written, threw |-> FALSE,
                 wrote |-> {"custom-signing.gradle"},
                 log |-> "build.gradle already includes custom-signing.gradle"]

RECURSIVE LinesUpTo(_)
LinesUpTo(n) ==
  IF n = 0 THEN {<<>>}
  ELSE LinesUpTo(n - 1) \cup
       {Append(l, k) : l \in {x \in LinesUpTo(n - 1) : Len(x) = n - 1}, k \in LineKinds}

\* The build.gradle files a project starts with: as generated, or as an
\* earlier run left it, so with the signing line at most once.
BuildGradleFiles ==
  {l \in LinesUpTo(MaxLines) : Len(l) >= 1 /\ Occurrences(l, "signing") <= 1}

NoBuildGradle == [exists |-> FALSE, lines |-> <<>>]

GradleIdle ==
  /\ fs = [credentials |-> FALSE, appDir |-> FALSE, signing |-> "absent",
           buildGradle |-> NoBuildGradle]
  /\ run = [count |-> 0, threw |-> FALSE, wrote |-> {}, log |-> "none",
            before |-> NoBuildGradle]

GradleInit ==
  /\ \E credentials \in BOOLEAN :
       \/ \E signing \in {"absent", "signingConfigContent"} :
            \/ \E lines \in BuildGradleFiles :
                 fs = [credentials |-> credentials, appDir |-> TRUE, signing |-> signing,
                       buildGradle |-> [exists |-> TRUE, lines |-> lines]]
            \/ fs = [credentials |-> credentials, appDir |-> TRUE, signing |-> signing,
                     buildGradle |-> NoBuildGradle]
       \/ fs = [credentials |-> credentials, appDir |-> FALSE, signing |-> "absent",
                buildGradle |-> NoBuildGradle]
  /\ run = [count |-> 0, threw |-> FALSE, wrote |-> {}, log |-> "none",
            before |-> NoBuildGradle]

\* withCustomSigning's android mod: modifyGradleFiles(projectRoot, config).
WithCustomSigning ==
  /\ run.count < MaxRuns
  /\ LET r == modifyGradleFiles(fs)
     IN  /\ fs' = r.fs
         /\ run' = [count |-> run.count + 1, threw |-> r.threw, wrote |-> r.wrote,
                    log |-> r.log, before |-> fs.buildGradle]
  /\ UNCHANGED exceptGradle

(***************************************************************************)
(* The persisted store: persistConfig, rootReducer, persistReducer,        *)
(* persistStore.                                                           *)
(***************************************************************************)
\* JavaScript values as JSON sees them.
JNull == [k |-> "null"]
JUndefined == [k |-> "undefined"]
JBool(b) == [k |-> "boolean", b |-> b]
JNum(n) == [k |-> "number", n |-> n]
JStr(s) == [k |-> "string", s |-> s]
JObj(o) == [k |-> "object", o |-> o]

\* A token of a JSON text.
Tok(kind, text) == <<kind, text>>

\* The order in which the keys of the objects were inserted.
KeyOrder ==
  <<"auth", "_persist", "user", "loading", "id", "email", "version", "rehydrated">>

\* The members JSON.stringify writes: those whose value is not undefined.
MembersOf(o) == SelectSeq(KeyOrder, LAMBDA key : key \in DOMAIN o /\ o[key] # JUndefined)

\* A slip of the serializer: members that are null are left out.
MembersNotNull(o) ==
  SelectSeq(KeyOrder, LAMBDA key : key \in DOMAIN o /\ o[key] \notin {JUndefined, JNull})

RECURSIVE stringifyWith(_, _), stringifyMembers(_, _, _)
\* JSON.stringify, given which members of an object are written.
stringifyWith(v, nullsKept) ==
  CASE v.k = "null" -> <<Tok("lit", "null")>>
    [] v.k = "boolean" -> <<Tok("lit", IF v.b THEN "true" ELSE "false")>>
    [] v.k = "number" -> <<Tok("num", v.n)>>
    [] v.k = "string" -> <<Tok("str", v.s)>>
    [] v.k = "object" ->
         <<Tok("p", "{")>>
           \o stringifyMembers(v.o, IF nullsKept THEN MembersOf(v.o) ELSE MembersNotNull(v.o),
                               nullsKept)
           \o <<Tok("p", "}")>>

stringifyMembers(o, keys, nullsKept) ==
  IF keys = <<>> THEN <<>>
  ELSE <<Tok("str", Head(keys)), Tok("p", ":")>>
         \o stringifyWith(o[Head(keys)], nullsKept)
         \o (IF Len(keys) > 1 THEN <<Tok("p", ",")>> ELSE <<>>)
         \o stringifyMembers(o, Tail(keys), nullsKept)

stringifyDroppingNulls(v) == stringifyWith(v, FALSE)

\* redux-persist's default serialize: JSON.stringify.
stringify(v) == stringifyWith(v, TRUE)

RECURSIVE parseValue(_), parseMembers(_, _)
\* JSON.parse: the value at the head of the tokens, and the tokens after it.
parseValue(ts) ==
  LET t == Head(ts)
  IN  CASE t = Tok("lit", "null") -> [v |-> JNull, rest |-> Tail(ts)]
        [] t = Tok("lit", "true") -> [v |-> JBool(TRUE), rest |-> Tail(ts)]
        [] t = Tok("lit", "false") -> [v |-> JBool(FALSE), rest |-> Tail(ts)]
        [] t[1] = "num" -> [v |-> JNum(t[2]), rest |-> Tail(ts)]
        [] t[1] = "str" -> [v |-> JStr(t[2]), rest |-> Tail(ts)]
        [] t = Tok("p", "{") -> parseMembers(Tail(ts), <<>>)

parseMembers(ts, acc) ==
  IF Head(ts) = Tok("p", "}") THEN [v |-> JObj(acc), rest |-> Tail(ts)]
  ELSE IF Head(ts) = Tok("p", ",") THEN parseMembers(Tail(ts), acc)
  ELSE LET r == parseValue(Tail(Tail(ts)))
       IN  parseMembers(r.rest, (Head(ts)[2] :> r.v) @@ acc)

\* redux-persist's default deserialize: JSON.parse.
parse(ts) == parseValue(ts).v

\* A slip of the configuration: the two lists exchanged.
persistConfigListsExchanged ==
  [ key       |-> "@withInstructionToolkitCachePersist",
    version   |-> "1",
    whitelist |-> {"nav", "navigation"},
    blacklist |-> {"auth"} ]

\* persistConfig.
persistConfig ==
  [ key       |-> "@withInstructionToolkitCachePersist",
    version   |-> "1",
    whitelist |-> {"auth"},
    blacklist |-> {"nav", "navigation"} ]

\* Whether redux-persist writes a key of the state: in the whitelist (or its
\* own _persist) and not in the blacklist.
passWhitelistBlacklist(key) ==
  /\ key \in persistConfig.whitelist \/ key = "_persist"
  /\ key \notin persistConfig.blacklist

\* The users that sign in, as the API returns them.
UserIds == <<"u1", "u2", "u3", "u4">>
Users ==
  {JObj([id |-> JStr(UserIds[i]), email |-> JStr("user@example.com")]) : i \in 1 .. NumUsers}

\* The auth slice: its initial state, its states and its reducer.
InitialAuth == JObj([user |-> JNull, loading |-> JBool(FALSE)])
AuthStates == {JObj([user |-> u, loading |-> JBool(l)]) : u \in Users \cup {JNull}, l \in BOOLEAN}

AuthActions ==
  {[type |-> "signin/pending", user |-> JNull], [type |-> "signin/rejected", user |-> JNull],
   [type |-> "logout", user |-> JNull]}
    \cup {[type |-> "signin/fulfilled", user |-> u] : u \in Users}

AuthReducer(state, action) ==
  CASE action.type = "signin/pending" -> JObj([state.o EXCEPT !.loading = JBool(TRUE)])
    [] action.type = "signin/fulfilled" -> JObj([user |-> action.user, loading |-> JBool(FALSE)])
    [] action.type = "signin/rejected" -> JObj([state.o EXCEPT !.loading = JBool(FALSE)])
    [] action.type = "logout" -> InitialAuth
    [] OTHER -> state

\* rootReducer = combineReducers({ auth: AuthReducer }): the state's keys.
rootReducer == {"auth"}

PersistState(rehydrated) ==
  JObj([version |-> JNum(persistConfig.version), rehydrated |-> JBool(rehydrated)])

NoStore == <<>>
NoPersistoid == [lastState |-> <<>>, keysToProcess |-> <<>>, stagedState |-> <<>>]
NoText == [present |-> FALSE, text |-> <<>>]
NoAuth == [present |-> FALSE, auth |-> InitialAuth]

\* The keys of a state in the order Object.keys gives them.
StateKeys(state) == SelectSeq(KeyOrder, LAMBDA key : key \in DOMAIN state)

\* persistoid.update(state): queue the keys that pass the lists, changed
\* since the last update and not queued yet; remember the state.
Update(p, state) ==
  LET changed(key) ==
        /\ passWhitelistBlacklist(key)
        /\ key \notin DOMAIN p.lastState \/ p.lastState[key] # state[key]
        /\ \A i \in 1 .. Len(p.keysToProcess) : p.keysToProcess[i] # key
  IN  [p EXCEPT !.lastState = state,
                !.keysToProcess = @ \o SelectSeq(StateKeys(state), changed)]

\* processNextKey: serialize the head key's sub-state into stagedState.
ProcessKey(p) ==
  LET key == Head(p.keysToProcess)
  IN  [p EXCEPT !.keysToProcess = Tail(@),
                !.stagedState = (key :> JStr(stringify(p.lastState[key]))) @@ @]

RECURSIVE ProcessAll(_)
ProcessAll(p) == IF p.keysToProcess = <<>> THEN p ELSE ProcessAll(ProcessKey(p))

\* writeStagedState: storage.setItem(storageKey, serialize(stagedState)).
StoredText(p) == [present |-> TRUE, text |-> stringify(JObj(p.stagedState))]

\* getStoredState: parse the stored text, then each key's text.
StoredState(item) ==
  LET raw == parse(item.text).o
  IN  [key \in DOMAIN raw |-> parse(raw[key].s)]

\* autoMergeLevel1: every stored key but _persist replaces the state's.
Reconcile(state, stored) ==
  [key \in DOMAIN state |->
     IF key \in DOMAIN stored /\ key # "_persist" THEN stored[key] ELSE state[key]]

PersistIdle ==
  /\ app = "stopped"
  /\ store = NoStore
  /\ inbound = NoText
  /\ persistoid = NoPersistoid
  /\ storage = NoText
  /\ persisted = [written |-> NoAuth, launch |-> NoAuth, rehydrated |-> NoAuth]

\* The app starts: the store is created and persistStore dispatches PERSIST,
\* which reads the stored state.
Launch ==
  /\ app = "stopped"
  /\ app' = "persisting"
  /\ store' = [key \in rootReducer \cup {"_persist"} |->
                 IF key = "_persist" THEN PersistState(FALSE) ELSE InitialAuth]
  /\ inbound' = storage
  /\ persistoid' = NoPersistoid
  /\ persisted' = [persisted EXCEPT !.launch = persisted.written, !.rehydrated = NoAuth]
  /\ UNCHANGED storage
  /\ UNCHANGED exceptPersist

\* REHYDRATE: the stored state is merged into the store's and the result is
\* handed to the persistoid.
Rehydrate ==
  /\ app = "persisting"
  /\ app' = "rehydrated"
  /\ LET merged == IF inbound.present THEN Reconcile(store, StoredState(inbound)) ELSE store
         state == [merged EXCEPT !["_persist"] = PersistState(TRUE)]
     IN  /\ store' = state
         /\ persistoid' = Update(persistoid, state)
         /\ persisted' = [persisted EXCEPT !.rehydrated = [present |-> TRUE, auth |-> state.auth]]
  /\ UNCHANGED <<inbound, storage>>
  /\ UNCHANGED exceptPersist

\* An action of the auth slice goes through the persisted reducer.
DispatchAuth(action) ==
  /\ app # "stopped"
  /\ LET auth == AuthReducer(store.auth, action)
     IN  /\ auth # store.auth
         /\ store' = [store EXCEPT !.auth = auth]
         /\ persistoid' = Update(persistoid, store')
  /\ UNCHANGED <<app, inbound, storage, persisted>>
  /\ UNCHANGED exceptPersist

\* The persistoid's timer: one key is serialized, and the staged state is
\* written once no key is left.
ProcessNextKey ==
  /\ app # "stopped"
  /\ persistoid.keysToProcess # <<>>
  /\ persistoid' = ProcessKey(persistoid)
  /\ IF persistoid'.keysToProcess = <<>>
       THEN /\ storage' = StoredText(persistoid')
            /\ persisted' = [persisted EXCEPT !.written =
                               [present |-> TRUE, auth |-> persistoid.lastState.auth]]
       ELSE UNCHANGED <<storage, persisted>>
  /\ UNCHANGED <<app, store, inbound>>
  /\ UNCHANGED exceptPersist

\* persistor.flush(): every queued key is serialized and the result written.
Flush ==
  /\ app # "stopped"
  /\ persistoid.keysToProcess # <<>>
  /\ persistoid' = ProcessAll(persistoid)
  /\ storage' = StoredText(persistoid')
  /\ persisted' = [persisted EXCEPT !.written =
                     [present |-> TRUE, auth |-> persistoid.lastState.auth]]
  /\ UNCHANGED <<app, store, inbound>>
  /\ UNCHANGED exceptPersist

\* The app is killed: what is in memory is gone, the storage stays.
Kill ==
  /\ app # "stopped"
  /\ app' = "stopped"
  /\ store' = NoStore
  /\ inbound' = NoText
  /\ persistoid' = NoPersistoid
  /\ UNCHANGED <<storage, persisted>>
  /\ UNCHANGED exceptPersist

PersistNext ==
  \/ Launch
  \/ Rehydrate
  \/ \E action \in AuthActions : DispatchAuth(action)
  \/ ProcessNextKey
  \/ Flush
  \/ Kill

(***************************************************************************)
(* ios-build.sh: the iOS archive build script.  It runs under set -e, so a *)
(* simple command that returns non-zero ends the script with that status;  *)
(* set +o pipefail leaves a pipeline with the status of its last command.  *)
(***************************************************************************)
\* ${N:-word}: the word when the argument is unset or empty.
DefaultTo(arg, word) == IF arg = "" THEN word ELSE arg

\* The arguments the script is run with ("" is a missing or empty one).
EnvironmentArgs == {"", "Production", "Preview"}
TeamIdArgs == {"", "ABCDEFGHIJ"}
AllowExportArgs == {"", "true", "false"}

PROJECT_BASE_NAME == "withinstruction"
PROJECT_NAME(environment) == PROJECT_BASE_NAME \o environment
\* Paths are sequences of names; the script's are relative (./ios/...).
ARCHIVE_PATH(environment) ==
  <<"ios", "build", PROJECT_NAME(environment) \o ".xcarchive">>
EXPORT_PATH == <<"ios", "build">>
EXPORT_OPTIONS_PLIST == <<"ios", "ExportOptions.plist">>

\* A relative path names a file under the working directory.
Resolve(cwd, path) == cwd \o path
dirname(path) == SubSeq(path, 1, Len(path) - 1)

\* What a path holds.
Dir == [kind |-> "dir"]
Link == [kind |-> "link"]
File == [kind |-> "file"]
\* A Podfile: whether it names use_react_native! (bare, or as a call with an
\* opening parenthesis) and how often it gives the :path of react-native.
PodfileText(marker, paths) == [kind |-> "file", marker |-> marker, paths |-> paths]
PodfileMarkers == {"none", "bare", "call"}

\* The tests [ -f ], [ -d ], [ -L ] and the file operations.
IsFile(d, path) == path \in DOMAIN d /\ d[path].kind = "file"
IsDir(d, path) == path \in DOMAIN d /\ d[path].kind \in {"dir", "link"}
IsLink(d, path) == path \in DOMAIN d /\ d[path].kind = "link"
WriteFile(d, path, content) == (path :> content) @@ d
Remove(d, paths) == [q \in DOMAIN d \ paths |-> d[q]]
Move(d, from, to) == Remove(WriteFile(d, to, d[from]), {from})
MkdirP(d, path) == IF path \in DOMAIN d THEN d ELSE WriteFile(d, path, Dir)

\* grep -q "use_react_native!" Podfile
GrepUseReactNative(text) == text.marker # "none"
\* sed "s|use_react_native!(|use_react_native!(\n  :path => ...,|g"
SedReactNativePath(text) ==
  IF text.marker = "call" THEN [text EXCEPT !.paths = @ + 1] ELSE text
\* grep -q ":path => \"$ROOT_DIR/node_modules/react-native\"" Podfile.temp
GrepReactNativePath(text) == text.paths > 0

\* The status of a pipeline without pipefail: that of its last command.
PipelineStatus(statuses) == statuses[Len(statuses)]

\* Lines 120-145: the script's variables from its arguments, or exit 1.
CheckArgumentsEnvironmentOnly(args) ==
  LET environment == DefaultTo(args.environment, "Production")
      allowExport == DefaultTo(args.allowExport, "false")
  IN  IF environment = ""
      THEN [exit |-> TRUE, out |-> {"ERROR: No environment specified"},
            ENVIRONMENT |-> environment, ALLOW_EXPORT |-> allowExport]
      ELSE [exit |-> FALSE, out |-> {},
            ENVIRONMENT |-> IF environment = "Production" THEN "" ELSE environment,
            ALLOW_EXPORT |-> IF environment = "Production" THEN "false" ELSE allowExport]

CheckArguments(args) ==
  LET environment == DefaultTo(args.environment, "Production")
      allowExport == DefaultTo(args.allowExport, "false")
  IN  IF args.teamId = ""
      THEN [exit |-> TRUE,
            out |-> {"ERROR: Team ID is required!",
                     "Usage: ./ios-build.sh <ENVIRONMENT> <TEAM_ID>"},
            ENVIRONMENT |-> environment, ALLOW_EXPORT |-> allowExport]
      ELSE IF environment = ""
      THEN [exit |-> TRUE, out |-> {"ERROR: No environment specified"},
            ENVIRONMENT |-> environment, ALLOW_EXPORT |-> allowExport]
      ELSE [exit |-> FALSE, out |-> {},
            ENVIRONMENT |-> IF environment = "Production" THEN "" ELSE environment,
            ALLOW_EXPORT |-> IF environment = "Production" THEN "false" ELSE allowExport]

\* Lines 241-277 (Step 5): ExportOptions.plist is written when export is
\* enabled and no file is at its path.
PrepareExportOptionsNever(d, cwd, allowExport) == d

PrepareExportOptions(d, cwd, allowExport) ==
  LET plist == Resolve(cwd, EXPORT_OPTIONS_PLIST)
  IN  IF allowExport = "true" /\ ~IsFile(d, plist)
      THEN WriteFile(MkdirP(d, dirname(plist)), plist, File)
      ELSE d

\* The project a run starts from.
NodeModules == <<"node_modules">>
ReactNativePackage == <<"node_modules", "react-native", "package.json">>
IosDir == <<"ios">>
PodfilePath == <<"Podfile">>
PodfileBackup == <<"Podfile.backup">>
PodfileTemp == <<"Podfile.temp">>

InitialNodeModules ==
  { <<>>,
    NodeModules :> Dir,
    (NodeModules :> Dir) @@ (ReactNativePackage :> File) }

InitialIos ==
  { IosDir :> Dir }
  \cup { (IosDir :> Dir) @@ (Resolve(IosDir, PodfilePath) :> PodfileText(m, 0)) :
           m \in PodfileMarkers }

InitialPlist ==
  { <<>>,
    (Resolve(IosDir, IosDir) :> Dir)
      @@ (Resolve(IosDir, EXPORT_OPTIONS_PLIST) :> File) }

InitialDisks ==
  { n @@ i @@ e : n \in InitialNodeModules, i \in InitialIos, e \in InitialPlist }

ShStart ==
  [ at |-> "arguments", exited |-> FALSE, code |-> 0, cwd |-> <<>>,
    ENVIRONMENT |-> "", ALLOW_EXPORT |-> "", out |-> {} ]

IosArgsIdle == [environment |-> "", teamId |-> "", allowExport |-> ""]

IosIdle ==
  /\ argv = IosArgsIdle
  /\ sh = [ShStart EXCEPT !.at = "off"]
  /\ disk = <<>>
  /\ ran = <<>>
  /\ original = <<>>

IosInit ==
  /\ argv \in [environment : EnvironmentArgs, teamId : TeamIdArgs,
               allowExport : AllowExportArgs]
  /\ sh = ShStart
  /\ disk \in InitialDisks
  /\ ran = <<>>
  /\ original = disk

Running(at) == sh.at = at /\ ~sh.exited
Command(cmd, code) == [cmd |-> cmd, code |-> code]
\* set -e: a failed command ends the script with the command's status.
Exit(code) == [sh EXCEPT !.exited = TRUE, !.code = code]
Goto(at) == [sh EXCEPT !.at = at]

\* Lines 120-145.
Arguments ==
  /\ Running("arguments")
  /\ LET r == CheckArguments(argv)
     IN  sh' = IF r.exit
               THEN [Exit(1) EXCEPT !.out = @ \cup r.out]
               ELSE [Goto("npmInstall") EXCEPT !.ENVIRONMENT = r.ENVIRONMENT,
                                               !.ALLOW_EXPORT = r.ALLOW_EXPORT]
  /\ UNCHANGED <<argv, disk, ran, original>>
  /\ UNCHANGED exceptIos

\* Lines 170-174: npm install when node_modules is missing.
NpmInstall(code) ==
  /\ Running("npmInstall")
  /\ IF ~IsDir(disk, Resolve(sh.cwd, NodeModules))
     THEN /\ ran' = Append(ran, Command("npm install", code))
          /\ disk' = IF code = 0
                     THEN WriteFile(WriteFile(disk, NodeModules, Dir),
                                    ReactNativePackage, File)
                     ELSE disk
          /\ sh' = IF code = 0 THEN Goto("verify") ELSE Exit(code)
     ELSE /\ code = 0
          /\ sh' = Goto("verify")
          /\ UNCHANGED <<disk, ran>>
  /\ UNCHANGED <<argv, original>>
  /\ UNCHANGED exceptIos

\* Lines 176-182.
VerifyReactNative ==
  /\ Running("verify")
  /\ sh' = IF ~IsFile(disk, Resolve(sh.cwd, ReactNativePackage))
           THEN [Exit(1) EXCEPT !.out = @ \cup {"ERROR: React Native package.json not found"}]
           ELSE Goto("clean")
  /\ UNCHANGED <<argv, disk, ran, original>>
  /\ UNCHANGED exceptIos

\* Lines 184-195: the cache cleaning; every command is followed by || echo
\* or is rm -rf, and the caches are outside the project.
CleanCaches ==
  /\ Running("clean")
  /\ ran' = Append(ran, Command("rm -rf caches", 0))
  /\ sh' = Goto("backup")
  /\ UNCHANGED <<argv, disk, original>>
  /\ UNCHANGED exceptIos

\* Lines 197-202: cd ios; cp Podfile Podfile.backup.
BackupPodfile ==
  /\ Running("backup")
  /\ LET podfile == Resolve(IosDir, PodfilePath)
         code == IF IsFile(disk, podfile) THEN 0 ELSE 1
     IN  /\ ran' = Append(ran, Command("cp", code))
         /\ disk' = IF code = 0
                    THEN WriteFile(disk, Resolve(IosDir, PodfileBackup), disk[podfile])
                    ELSE disk
         /\ sh' = IF code = 0
                  THEN [Goto("podfile") EXCEPT !.cwd = IosDir]
                  ELSE [Exit(code) EXCEPT !.cwd = IosDir]
  /\ UNCHANGED <<argv, original>>
  /\ UNCHANGED exceptIos

\* Lines 204-219.
UpdatePodfile ==
  /\ Running("podfile")
  /\ LET podfile == Resolve(sh.cwd, PodfilePath)
         temp == Resolve(sh.cwd, PodfileTemp)
         written == WriteFile(disk, temp, SedReactNativePath(disk[podfile]))
     IN  IF GrepUseReactNative(disk[podfile])
         THEN IF GrepReactNativePath(written[temp])
              THEN /\ disk' = Move(written, temp, podfile)
                   /\ ran' = Append(ran, Command("mv", 0))
                   /\ sh' = [Goto("pods") EXCEPT !.out = @ \cup {"Podfile updated"}]
              ELSE /\ disk' = Remove(written, {temp})
                   /\ ran' = Append(ran, Command("rm", 0))
                   /\ sh' = [Goto("pods") EXCEPT !.out = @ \cup {"Automatic Podfile update failed"}]
         ELSE /\ sh' = Goto("pods")
              /\ UNCHANGED <<disk, ran>>
  /\ UNCHANGED <<argv, original>>
  /\ UNCHANGED exceptIos

\* Lines 221-225: rm -rf Pods; rm -rf Podfile.lock; pod cache clean --all.
CleanPods(code) ==
  /\ Running("pods")
  /\ disk' = Remove(disk, {Resolve(sh.cwd, <<"Pods">>),
                           Resolve(sh.cwd, <<"Podfile.lock">>)})
  /\ ran' = Append(ran, Command("pod cache clean", code))
  /\ sh' = IF code = 0 THEN Goto("link") ELSE Exit(code)
  /\ UNCHANGED <<argv, original>>
  /\ UNCHANGED exceptIos

\* Lines 227-232: ln -sf "$ROOT_DIR/node_modules" .
LinkNodeModules ==
  /\ Running("link")
  /\ disk' = IF ~IsDir(disk, Resolve(sh.cwd, NodeModules)) /\ IsDir(disk, NodeModules)
             THEN WriteFile(disk, Resolve(sh.cwd, NodeModules), Link)
             ELSE disk
  /\ sh' = Goto("podInstall")
  /\ UNCHANGED <<argv, ran, original>>
  /\ UNCHANGED exceptIos

\* Lines 237-239: pod install ... 2>&1 | tee pod-install.log | grep -v ...
\* grep -v returns 0 when it lets a line through and 1 when it lets none.
PodInstall(code, otherLines) ==
  /\ Running("podInstall")
  /\ LET status == PipelineStatus(<<code, 0, IF otherLines THEN 0 ELSE 1>>)
         logged == WriteFile(disk, Resolve(sh.cwd, <<"pod-install.log">>), File)
     IN  /\ ran' = Append(ran, Command("pod install", code))
         /\ disk' = IF code = 0
                    THEN WriteFile(WriteFile(logged, Resolve(sh.cwd, <<"Pods">>), Dir),
                                   Resolve(sh.cwd, <<"Podfile.lock">>), File)
                    ELSE logged
         /\ sh' = IF status = 0 THEN Goto("exportOptions") ELSE Exit(status)
  /\ UNCHANGED <<argv, original>>
  /\ UNCHANGED exceptIos

\* Lines 241-277 (Step 5).
ExportOptions ==
  /\ Running("exportOptions")
  /\ disk' = PrepareExportOptions(disk, sh.cwd, sh.ALLOW_EXPORT)
  /\ sh' = Goto("archive")
  /\ UNCHANGED <<argv, ran, original>>
  /\ UNCHANGED exceptIos

\* Lines 279-292 (Step 6): xcodebuild archive.
Archive(code) ==
  /\ Running("archive")
  /\ ran' = Append(ran, Command("xcodebuild archive", code))
  /\ disk' = IF code = 0
             THEN WriteFile(disk, Resolve(sh.cwd, ARCHIVE_PATH(sh.ENVIRONMENT)), Dir)
             ELSE disk
  /\ sh' = IF code = 0 THEN Goto("export") ELSE Exit(code)
  /\ UNCHANGED <<argv, original>>
  /\ UNCHANGED exceptIos

\* Lines 294-305: xcodebuild -exportArchive when ExportOptions.plist is a file.
ExportIpa(code) ==
  /\ Running("export")
  /\ IF IsFile(disk, Resolve(sh.cwd, EXPORT_OPTIONS_PLIST))
     THEN /\ ran' = Append(ran, Command("xcodebuild -exportArchive", code))
          /\ disk' = IF code = 0
                     THEN WriteFile(disk, Resolve(sh.cwd, EXPORT_PATH \o <<"ipa">>), File)
                     ELSE disk
          /\ sh' = IF code = 0 THEN Goto("restore") ELSE Exit(code)
     ELSE /\ code = 0
          /\ sh' = [Goto("restore") EXCEPT !.out = @ \cup {"Skipping IPA export"}]
          /\ UNCHANGED <<disk, ran>>
  /\ UNCHANGED <<argv, original>>
  /\ UNCHANGED exceptIos

\* Lines 307-311: mv Podfile.backup Podfile.
RestorePodfile ==
  /\ Running("restore")
  /\ LET backup == Resolve(sh.cwd, PodfileBackup)
     IN  IF IsFile(disk, backup)
         THEN /\ disk' = Move(disk, backup, Resolve(sh.cwd, PodfilePath))
              /\ ran' = Append(ran, Command("mv", 0))
              /\ sh' = [Goto("unlink") EXCEPT !.out = @ \cup {"Restoring original Podfile"}]
         ELSE /\ sh' = Goto("unlink")
              /\ UNCHANGED <<disk, ran>>
  /\ UNCHANGED <<argv, original>>
  /\ UNCHANGED exceptIos

\* Lines 313-319: the link is removed and the script ends with status 0.
RemoveLink ==
  /\ Running("unlink")
  /\ disk' = IF IsLink(disk, Resolve(sh.cwd, NodeModules))
             THEN Remove(disk, {Resolve(sh.cwd, NodeModules)})
             ELSE disk
  /\ sh' = [Exit(0) EXCEPT !.at = "done"]
  /\ UNCHANGED <<argv, ran, original>>
  /\ UNCHANGED exceptIos

ExitCodes == {0, 1}

IosNext ==
  \/ Arguments
  \/ \E code \in ExitCodes : NpmInstall(code)
  \/ VerifyReactNative
  \/ CleanCaches
  \/ BackupPodfile
  \/ UpdatePodfile
  \/ \E code \in ExitCodes : CleanPods(code)
  \/ LinkNodeModules
  \/ \E code \in ExitCodes, otherLines \in BOOLEAN : PodInstall(code, otherLines)
  \/ ExportOptions
  \/ \E code \in ExitCodes : Archive(code)
  \/ \E code \in ExitCodes : ExportIpa(code)
  \/ RestorePodfile
  \/ RemoveLink


(***************************************************************************)
(* The copy-env script: it runs without set -e, so a failed cp does not    *)
(* end it.                                                                 *)
(***************************************************************************)
EnvArgs == {"", "prod", "preview", "dev", "production", "development", "staging"}
EnvFile(environment) == ".env." \o environment
NoEnvFile == "<no file>"
EnvSources == {EnvFile("production"), EnvFile("preview"), EnvFile("development")}

\* cp source .env: .env gets the source's content; without the source cp
\* fails and .env stays as it is.
Cp(files, from, to) ==
  IF files[from] # NoEnvFile THEN [files EXCEPT ![to] = files[from]] ELSE files

\* Lines 9-20: the file copied for the argument, or none.
EnvSource(arg) ==
  CASE arg = "prod" -> EnvFile("production")
    [] arg = "preview" -> EnvFile("preview")
    [] arg = "dev" -> EnvFile("development")
    [] OTHER -> NoEnvFile

EnvCopyIdle ==
  [ arg |-> "", at |-> "off", exited |-> FALSE, code |-> 0, out |-> {},
    files |-> [f \in EnvSources \cup {".env"} |-> NoEnvFile],
    before |-> [f \in EnvSources \cup {".env"} |-> NoEnvFile] ]

EnvIdle == envCopy = EnvCopyIdle

EnvInit ==
  \E arg \in EnvArgs, present \in SUBSET EnvSources, old \in {NoEnvFile, "OLD=1"} :
    LET files == [f \in EnvSources \cup {".env"} |->
                    IF f = ".env" THEN old
                    ELSE IF f \in present THEN "FROM=" \o f ELSE NoEnvFile]
    IN  envCopy = [EnvCopyIdle EXCEPT !.arg = arg, !.at = "check",
                                      !.files = files, !.before = files]

\* Lines 3-7: touch .env when it does not exist.
EnsureEnvFile ==
  /\ envCopy.at = "check" /\ ~envCopy.exited
  /\ envCopy' =
       IF envCopy.files[".env"] = NoEnvFile
       THEN [envCopy EXCEPT !.at = "copy", !.files[".env"] = "",
                            !.out = @ \cup {".env file does not exist. Creating .env file..."}]
       ELSE [envCopy EXCEPT !.at = "copy"]
  /\ UNCHANGED exceptEnv

\* Lines 9-22: the copy for the argument and the closing message, or exit 1.
CopyEnv ==
  /\ envCopy.at = "copy" /\ ~envCopy.exited
  /\ LET from == EnvSource(envCopy.arg)
     IN  envCopy' =
           IF from = NoEnvFile
           THEN [envCopy EXCEPT !.at = "done", !.exited = TRUE, !.code = 1,
                                !.out = @ \cup {"Invalid environment specified."}]
           ELSE [envCopy EXCEPT !.at = "done", !.exited = TRUE, !.code = 0,
                                !.files = Cp(@, from, ".env"),
                                !.out = @ \cup {".env file has been updated"}]
  /\ UNCHANGED exceptEnv

EnvNext == EnsureEnvFile \/ CopyEnv

(***************************************************************************)
(* CustomButton: its render builds the press handler, lodash's debounce    *)
(* with { leading: true, trailing: false } around onPress.                 *)
(***************************************************************************)
\* A debounced function just created: never called, no timer.
NewDebounced == [called |-> FALSE, lastCallTime |-> 0, timer |-> FALSE]

\* lodash debounce, shouldInvoke(time).
shouldInvoke(fn, wait, time) ==
  \/ ~fn.called
  \/ time - fn.lastCallTime >= wait
  \/ time - fn.lastCallTime < 0

\* lodash debounce, debounced(): the leading edge invokes when no timer is
\* pending; every call records its time and leaves a timer pending.
DebouncedInvokes(fn, wait, time) == shouldInvoke(fn, wait, time) /\ ~fn.timer
DebouncedCall(fn, time) == [called |-> TRUE, lastCallTime |-> time, timer |-> TRUE]

\* The props of a button: enableDebounce and debounceTime, defaulted.
DebounceTimes == {DefaultDebounceTime, 100}
Delays == {100, 200}

ButtonOff ==
  [ mounted |-> FALSE, enableDebounce |-> TRUE, debounceTime |-> DefaultDebounceTime,
    handleOnPress |-> NewDebounced, clock |-> 0, renders |-> 0, advances |-> 0 ]

ButtonIdle == button = ButtonOff /\ presses = <<>>

\* The first render.
ButtonInit ==
  /\ \E e \in BOOLEAN, w \in DebounceTimes :
       button = [ButtonOff EXCEPT !.mounted = TRUE, !.enableDebounce = e,
                                  !.debounceTime = w, !.renders = 1]
  /\ presses = <<>>

\* Lines 33-62: a render builds a new handler.
Render ==
  /\ button.mounted
  /\ button.renders < MaxRenders
  /\ button' = [button EXCEPT !.handleOnPress = NewDebounced, !.renders = @ + 1]
  /\ UNCHANGED presses
  /\ UNCHANGED exceptButton

\* Time passes.
Advance(delay) ==
  /\ button.mounted
  /\ button.advances < MaxAdvances
  /\ button' = [button EXCEPT !.clock = @ + delay, !.advances = @ + 1]
  /\ UNCHANGED presses
  /\ UNCHANGED exceptButton

\* Lines 51-61 and 73: a press calls the handler of the last render.
Press ==
  /\ button.mounted
  /\ Len(presses) < MaxPresses
  /\ LET fn == button.handleOnPress
         invoked == IF button.enableDebounce
                    THEN DebouncedInvokes(fn, button.debounceTime, button.clock)
                    ELSE TRUE
     IN  /\ presses' = Append(presses, [time |-> button.clock, invoked |-> invoked,
                                        render |-> button.renders])
         /\ button' = IF button.enableDebounce
                      THEN [button EXCEPT !.handleOnPress = DebouncedCall(fn, button.clock)]
                      ELSE button
  /\ UNCHANGED exceptButton

\* lodash debounce, timerExpired(): once debounceTime has passed since the
\* last call the timer is cleared (trailing is false: nothing is invoked).
TimerExpired ==
  /\ button.mounted
  /\ button.handleOnPress.timer
  /\ button.clock - button.handleOnPress.lastCallTime >= button.debounceTime
  /\ button' = [button EXCEPT !.handleOnPress.timer = FALSE]
  /\ UNCHANGED presses
  /\ UNCHANGED exceptButton

ButtonNext ==
  \/ Render
  \/ \E delay \in Delays : Advance(delay)
  \/ Press
  \/ TimerExpired

(***************************************************************************)
(* SigninForm and isRemainingToFillForm.                                   *)
(***************************************************************************)
\* lodash isEmpty: null, undefined, numbers and booleans are empty; a string
\* is empty when its length is 0, an object when it has no key.
isEmpty(v) ==
  CASE v.k \in {"null", "undefined", "number", "boolean"} -> TRUE
    [] v.k = "string" -> Len(v.s) = 0
    [] OTHER -> DOMAIN v.o = {}

isRemainingToFillFormErrorsOnly(values, errors) ==
  ~isEmpty(errors.email) \/ ~isEmpty(errors.password)

isRemainingToFillForm(values, errors) ==
  LET isError == ~isEmpty(errors.email) \/ ~isEmpty(errors.password)
      isNoValue == isEmpty(values.email) \/ isEmpty(values.password)
  IN  isError \/ isNoValue

\* Texts are sequences of characters.
FieldValues == {JStr(<<>>), JStr(<<" ">>), JStr(<<"a", "b">>)}
FieldErrors == {JUndefined, JStr(<<>>), JStr(<<"R", "e", "q">>)}

SigninOff ==
  [ values |-> [email |-> JStr(<<>>), password |-> JStr(<<>>)],
    errors |-> [email |-> JUndefined, password |-> JUndefined],
    loading |-> FALSE, rendered |-> FALSE,
    disabledProp |-> FALSE, pressableDisabled |-> FALSE ]

SigninIdle == signin = SigninOff

SigninInit ==
  \E v \in [email : FieldValues, password : FieldValues],
     e \in [email : FieldErrors, password : FieldErrors],
     l \in BOOLEAN :
    signin = [SigninOff EXCEPT !.values = v, !.errors = e, !.loading = l]

\* SigninForm lines 24-26 and 64-70; CustomButton line 72.
RenderSigninForm ==
  /\ ~signin.rendered
  /\ LET disabled == isRemainingToFillForm(signin.values, signin.errors)
     IN  signin' = [signin EXCEPT !.rendered = TRUE,
                                  !.disabledProp = disabled,
                                  !.pressableDisabled = signin.loading \/ disabled]
  /\ UNCHANGED exceptSignin


(***************************************************************************)
(* The specifications: one per part of the program.                        *)
(***************************************************************************)
ThunkOff ==
  /\ isDevelopment = TRUE
  /\ rtk = [t \in Thunks |-> "idle"]
  /\ pc = [t \in Thunks |-> "idle"]
  /\ signal = [t \in Thunks |-> FALSE]
  /\ listeners = [t \in Thunks |-> {}]
  /\ source = [t \in Thunks |-> NewSource]
  /\ requests = [t \in Thunks |-> <<>>]
  /\ outcome = [t \in Thunks |-> NoOutcome]
  /\ returned = [t \in Thunks |-> NotReturned]
  /\ race = [t \in Thunks |-> "pending"]
  /\ actions = [t \in Thunks |-> <<>>]
  /\ sentryCalls = [t \in Thunks |-> 0]
  /\ captured = [t \in Thunks |-> <<>>]
  /\ toast = [t \in Thunks |-> TRUE]

HEOff == he = HEIdle

CfgOff == cfg = CfgIdle

\* The scripts and components at rest.
ToolsOff == IosIdle /\ EnvIdle /\ ButtonIdle /\ SigninIdle
AppOff == ThunkOff /\ HEOff /\ CfgOff /\ GradleIdle /\ PersistIdle

\* The API thunks.
InitThunk == ThunkInit /\ HEOff /\ CfgOff /\ GradleIdle /\ PersistIdle /\ ToolsOff
SpecThunk == InitThunk /\ [][ThunkNext]_vars

\* handleError.
InitHandleError == HEInit /\ ThunkOff /\ CfgOff /\ GradleIdle /\ PersistIdle /\ ToolsOff
SpecHandleError == InitHandleError /\ [][HandleErrorCall]_vars

\* The Expo configuration.
InitConfig == CfgInit /\ ThunkOff /\ HEOff /\ GradleIdle /\ PersistIdle /\ ToolsOff
SpecConfig == InitConfig /\ [][DefineConfigCall]_vars

\* The Android signing plugin.
InitGradle == GradleInit /\ ThunkOff /\ HEOff /\ CfgOff /\ PersistIdle /\ ToolsOff
SpecGradle == InitGradle /\ [][WithCustomSigning]_vars

\* The persisted store.
InitPersist == PersistIdle /\ ThunkOff /\ HEOff /\ CfgOff /\ GradleIdle /\ ToolsOff
SpecPersist == InitPersist /\ [][PersistNext]_vars

\* The iOS build script.
InitIos == IosInit /\ AppOff /\ EnvIdle /\ ButtonIdle /\ SigninIdle
SpecIos == InitIos /\ [][IosNext]_vars

\* The copy-env script.
InitEnv == EnvInit /\ AppOff /\ IosIdle /\ ButtonIdle /\ SigninIdle
SpecEnv == InitEnv /\ [][EnvNext]_vars

\* CustomButton.
InitButton == ButtonInit /\ AppOff /\ IosIdle /\ EnvIdle /\ SigninIdle
SpecButton == InitButton /\ [][ButtonNext]_vars

\* SigninForm.
InitSignin == SigninInit /\ AppOff /\ IosIdle /\ EnvIdle /\ ButtonIdle
SpecSignin == InitSignin /\ [][RenderSigninForm]_vars

(***************************************************************************)
(* Properties of the API thunks.                                           *)
(***************************************************************************)
ActionTypes(t) == [i \in 1 .. Len(actions[t]) |-> actions[t][i].type]

\* C1: if a thunk's abort signal fires while its request is in flight, the
\* cancel-token source whose token the request carries is cancelled with
\* reason USER_CANCELLED_REQUEST and the request ends as cancelled; a source
\* whose thunk was never aborted is never cancelled.
C1_AbortCancelsRequest ==
  \A t \in Thunks :
    /\ (pc[t] = "awaiting" /\ signal[t]) =>
         /\ source[t].requested
         /\ source[t].reason = USER_CANCELLED_REQUEST
         /\ \A i \in 1 .. Len(requests[t]) : requests[t][i].cancelToken = t
    /\ (pc[t] = "returned" /\ race[t] = "aborted") =>
         /\ ~outcome[t].threw
         /\ outcome[t].response.problem = "CANCEL_ERROR"
    /\ ~signal[t] => ~source[t].requested

\* A thunk aborted while its request is in flight.
C1_Witness ==
  \E t \in Thunks :
    /\ pc[t] = "awaiting" /\ signal[t] /\ source[t].requested
    /\ Len(requests[t]) = 1

\* C2: every dispatch emits pending first and then exactly one terminal
\* action, fulfilled or rejected, whatever the order of response, exception
\* and abort; once the request has settled or the thunk is aborted the
\* terminal action is due.
C2_PendingThenOneTerminal ==
  \A t \in Thunks :
    /\ rtk[t] = "idle" => ActionTypes(t) = <<>>
    /\ rtk[t] = "racing" => ActionTypes(t) = <<"pending">>
    /\ rtk[t] = "done" =>
         ActionTypes(t) \in {<<"pending", "fulfilled">>, <<"pending", "rejected">>}
    /\ (rtk[t] = "racing" /\ (pc[t] = "returned" \/ signal[t])) => ENABLED Finalize(t)

\* A dispatch that was aborted, whose request then ended, with its actions.
C2_Witness ==
  \E t \in Thunks :
    /\ rtk[t] = "done" /\ signal[t] /\ pc[t] = "returned"
    /\ ActionTypes(t) = <<"pending", "rejected">>

\* C3: a dispatch issues exactly one HTTP request, whatever its outcome.
C3_OneRequestPerDispatch ==
  \A t \in Thunks : Len(requests[t]) = IF rtk[t] = "idle" THEN 0 ELSE 1

\* A dispatch of a thunk that sends data, ended by a failed request.
C3_Witness ==
  \E t \in Thunks :
    /\ rtk[t] = "done" /\ pc[t] = "returned"
    /\ ~outcome[t].threw /\ ~outcome[t].response.ok
    /\ requests[t][1].verb = "post"
    /\ Len(requests[t]) = 1

\* C5 as stated: whenever the request throws, the error has reached
\* Sentry.captureException.
C5_CatchAlwaysCaptured ==
  \A t \in Thunks :
    (pc[t] = "returned" /\ outcome[t].threw) => Len(captured[t]) >= 1

\* C5, amended: whenever the request throws, sentryCaptureAPIException is
\* called once with the thrown value before the thunk rejects, and the error
\* reaches Sentry.captureException exactly when the build is not a
\* development build.
C5_CatchCapturedUnlessDevelopment ==
  \A t \in Thunks :
    (pc[t] = "returned" /\ outcome[t].threw) =>
      /\ sentryCalls[t] = 1
      /\ returned[t].kind = "rejectWithValue"
      /\ captured[t] = IF isDevelopment THEN <<>>
                       ELSE <<SentryEvent(ThunkUrl(t), outcome[t].error)>>

\* A request that threw outside a development build, its thunk rejected.
C5_Witness ==
  \E t \in Thunks :
    /\ outcome[t].threw /\ ~isDevelopment
    /\ Len(captured[t]) = 1
    /\ ActionTypes(t) = <<"pending", "rejected">>
    /\ actions[t][2].payload = handleCatchError(outcome[t].error)

(***************************************************************************)
(* Properties of handleError.                                              *)
(***************************************************************************)
\* The localized string of each problem code.
ProblemString(problem) ==
  CASE problem = "CLIENT_ERROR" -> "apiError:clientError"
    [] problem = "SERVER_ERROR" -> "apiError:serverError"
    [] problem = "TIMEOUT_ERROR" -> "apiError:timeoutError"
    [] problem = "CONNECTION_ERROR" -> "apiError:connectionError"
    [] problem = "NETWORK_ERROR" -> "apiError:networkError"
    [] problem = "CANCEL_ERROR" -> "apiError:cancelError"
    [] OTHER -> "apiError:somethingWentWrong"

CarriesNoMessage(response) ==
  ~response.data.present \/ response.data.message \in {Undefined, Null}

\* C4: for a response that is not ok and whose body carries no message,
\* handleError returns the localized string of the response's problem code,
\* and somethingWentWrong for a problem outside the six codes.
C4_ProblemToLocalizedString ==
  (he.called /\ CarriesNoMessage(he.response)) =>
    he.result.message = ProblemString(he.response.problem)

\* handleError was applied to a connection error without a message.
C4_Witness ==
  /\ he.called
  /\ he.response.problem = "CONNECTION_ERROR"
  /\ CarriesNoMessage(he.response)
  /\ he.result.message = "apiError:connectionError"

(***************************************************************************)
(* Properties of the persisted store.                                      *)
(***************************************************************************)
\* The keys of the state written under the persist key.
StoredKeys == DOMAIN parse(storage.text).o

\* C6: whatever was dispatched and flushed, the state written under the
\* persist key holds the auth slice and no other reducer key (beside it only
\* redux-persist's own _persist entry); no blacklisted name is in storage.
C6_OnlyAuthPersisted ==
  storage.present =>
    /\ StoredKeys \ {"_persist"} = {"auth"}
    /\ StoredKeys \cap persistConfig.blacklist = {}

\* A signed-in user's state was flushed to storage.
C6_Witness ==
  /\ storage.present
  /\ "auth" \in StoredKeys
  /\ persisted.written.present
  /\ persisted.written.auth.o.user \in Users

ExpectedAppName(environment) ==
  CASE environment = "development" -> "withinstruction-dev"
    [] environment = "preview" -> "withinstruction-preview"
    [] OTHER -> "withinstruction"

ExpectedBundleIdentifier(environment) ==
  CASE environment = "development" -> "com.simform.withinstruction.dev"
    [] environment = "preview" -> "com.simform.withinstruction.preview"
    [] OTHER -> "com.simform.withinstruction"

\* C8: getEnvironmentConfig gives the dev name and identifier for
\* 'development', the preview ones for 'preview' and the production ones for
\* 'production' and every other input; defineConfig writes the selected
\* identifier to ios.bundleIdentifier and to android.package alike.
C8_EnvironmentSelectsIdentifiers ==
  /\ \A e \in NodeEnvs :
       /\ getEnvironmentConfig(e).appName = ExpectedAppName(e)
       /\ getEnvironmentConfig(e).bundleIdentifier = ExpectedBundleIdentifier(e)
  /\ cfg.called =>
       /\ cfg.result.name = ExpectedAppName(cfg.nodeEnv)
       /\ cfg.result.ios.bundleIdentifier = ExpectedBundleIdentifier(cfg.nodeEnv)
       /\ cfg.result.android.package = cfg.result.ios.bundleIdentifier

\* defineConfig ran for 'preview' over a config with identifiers of its own.
C8_Witness ==
  /\ cfg.called /\ cfg.nodeEnv = "preview"
  /\ cfg.config.ios.bundleIdentifier = "com.other.ios"
  /\ cfg.config.android.package = "com.other.android"
  /\ cfg.result.android.package = "com.simform.withinstruction.preview"

(***************************************************************************)
(* Properties of the Android signing plugin.                               *)
(***************************************************************************)
\* C9 as stated: after one or more runs that returned, build.gradle includes
\* the custom signing script exactly once, and a run after the first leaves
\* build.gradle unchanged.
C9_SigningIncludedExactlyOnce ==
  (run.count >= 1 /\ ~run.threw) =>
    /\ Occurrences(fs.buildGradle.lines, "signing") = 1
    /\ run.count >= 2 => fs.buildGradle = run.before

\* C10 as stated: without credentialsNew.json at the project root
\* modifyGradleFiles throws and writes neither custom-signing.gradle nor
\* build.gradle.
C10_ThrowsWithoutCredentials ==
  (run.count >= 1 /\ ~fs.credentials) => (run.threw /\ run.wrote = {})

(***************************************************************************)
(* Properties of the iOS build script.                                     *)
(***************************************************************************)
ListedCommands ==
  {"npm install", "pod cache clean", "pod install", "xcodebuild archive",
   "xcodebuild -exportArchive", "cp", "mv"}

\* C11 as stated: a listed command that returned non-zero is the last thing
\* the script ran, and the script has ended with a non-zero status.
C11_StopsAtFirstFailure ==
  \A i \in 1..Len(ran) :
    (ran[i].cmd \in ListedCommands /\ ran[i].code # 0) =>
      (i = Len(ran) /\ sh.exited /\ sh.code # 0)

NonProductionExport ==
  /\ DefaultTo(argv.environment, "Production") # "Production"
  /\ argv.teamId # ""
  /\ argv.allowExport = "true"

Ran(cmd, code) == \E i \in 1..Len(ran) : ran[i] = Command(cmd, code)
RanCommand(cmd) == \E i \in 1..Len(ran) : ran[i].cmd = cmd

\* C12: run for a non-Production environment with a Team ID and true as the
\* third argument, once the archive step has succeeded the file the export
\* step tests for exists, and the step after the archive is the
\* xcodebuild -exportArchive command.
C12_ExportAfterArchive ==
  (NonProductionExport /\ Ran("xcodebuild archive", 0)) =>
    /\ IsFile(disk, Resolve(sh.cwd, EXPORT_OPTIONS_PLIST))
    /\ sh.at # "export" => RanCommand("xcodebuild -exportArchive")

\* A run that wrote ExportOptions.plist itself, exported the IPA and ended.
C12_Witness ==
  /\ NonProductionExport
  /\ Resolve(IosDir, EXPORT_OPTIONS_PLIST) \notin DOMAIN original
  /\ Ran("xcodebuild archive", 0)
  /\ Ran("xcodebuild -exportArchive", 0)
  /\ sh.at = "done" /\ sh.code = 0

\* C13: without a Team ID the script never leaves the argument check, ends
\* there with status 1 and the usage message, and has run no command and
\* changed no file.
C13_NoTeamIdExitsFirst ==
  (sh.at # "off" /\ argv.teamId = "") =>
    /\ sh.at = "arguments"
    /\ ran = <<>>
    /\ disk = original
    /\ sh.exited =>
         /\ sh.code = 1
         /\ "ERROR: Team ID is required!" \in sh.out
         /\ "Usage: ./ios-build.sh <ENVIRONMENT> <TEAM_ID>" \in sh.out

\* A run without a Team ID that has ended, in a project ready to build.
C13_Witness ==
  /\ argv.teamId = "" /\ argv.environment = "Preview"
  /\ sh.exited /\ sh.code = 1
  /\ IsFile(disk, ReactNativePackage)
  /\ IsFile(disk, Resolve(IosDir, PodfilePath))

\* C14 as stated: when the script has ended after backing up the Podfile,
\* the Podfile holds what it held before the run and neither Podfile.backup
\* nor Podfile.temp exists.
C14_PodfileRestoredOnEveryExit ==
  (sh.exited /\ Ran("cp", 0)) =>
    /\ IsFile(disk, Resolve(IosDir, PodfilePath))
    /\ disk[Resolve(IosDir, PodfilePath)] = original[Resolve(IosDir, PodfilePath)]
    /\ Resolve(IosDir, PodfileBackup) \notin DOMAIN disk
    /\ Resolve(IosDir, PodfileTemp) \notin DOMAIN disk

(***************************************************************************)
(* Properties of the copy-env script.                                      *)
(***************************************************************************)
\* C15 as stated: called with production, preview or development the script
\* ends with status 0 and .env holds what .env.<environment> holds; called
\* with anything else it ends with status 1.
C15_FullNamesAccepted ==
  envCopy.exited =>
    IF envCopy.arg \in {"production", "preview", "development"}
    THEN /\ envCopy.code = 0
         /\ envCopy.files[".env"] = envCopy.before[EnvFile(envCopy.arg)]
    ELSE envCopy.code = 1

(***************************************************************************)
(* Properties of CustomButton.                                             *)
(***************************************************************************)
\* C16 as stated: with enableDebounce a press less than debounceTime after
\* the press before it does not invoke onPress, whatever renders happened in
\* between; without enableDebounce every press invokes onPress.
C16_DebouncedAcrossRenders ==
  /\ button.enableDebounce =>
       \A i \in 2..Len(presses) :
         presses[i].time - presses[i - 1].time < button.debounceTime =>
           ~presses[i].invoked
  /\ ~button.enableDebounce =>
       \A i \in 1..Len(presses) : presses[i].invoked

(***************************************************************************)
(* Properties of the sign-in form.                                         *)
(***************************************************************************)
NonEmptyText(v) == v.k = "string" /\ v.s # <<>>

FormNotReady ==
  \/ NonEmptyText(signin.errors.email)
  \/ NonEmptyText(signin.errors.password)
  \/ ~NonEmptyText(signin.values.email)
  \/ ~NonEmptyText(signin.values.password)

\* C17 as stated: isRemainingToFillForm is true exactly when an error is
\* non-empty or a value is empty, and the sign-in button is disabled exactly
\* when it is true.
C17_DisabledExactlyWhenRemaining ==
  /\ isRemainingToFillForm(signin.values, signin.errors) = FormNotReady
  /\ signin.rendered =>
       signin.pressableDisabled = isRemainingToFillForm(signin.values, signin.errors)

\* C17, amended: isRemainingToFillForm is true exactly when an error is
\* non-empty or a value is empty; SigninForm passes it as the button's
\* disabled prop, and the button's Pressable is disabled exactly when it is
\* true or the auth loading flag is set.
C17_DisabledWhenRemainingOrLoading ==
  /\ isRemainingToFillForm(signin.values, signin.errors) = FormNotReady
  /\ signin.rendered =>
       /\ signin.disabledProp = FormNotReady
       /\ signin.pressableDisabled = (FormNotReady \/ signin.loading)

\* A filled form without errors rendered while signing in: the button is
\* disabled although nothing remains to fill.
C17_Witness ==
  /\ signin.rendered
  /\ signin.loading
  /\ ~isEmpty(signin.values.email) /\ ~isEmpty(signin.values.password)
  /\ isEmpty(signin.errors.email) /\ isEmpty(signin.errors.password)
  /\ ~signin.disabledProp
  /\ signin.pressableDisabled

=============================================================================
